---- MODULE Spec2Model ----
(***************************************************************************)
(* AudioAwareMeetingOrchestrator                                           *)
(* (autonomous_agent_framework/meeting_engine/audio_meeting_orchestrator)  *)
(* as a state machine.  The orchestrator runs on one asyncio event loop:   *)
(* every action below is the code that runs between two suspension points  *)
(* (an await on a collaborator, a sleep, or the first run of a task made   *)
(* with asyncio.create_task).                                              *)
(***************************************************************************)
EXTENDS Integers, Sequences, FiniteSets, Bags, TLC

\* ------------------------------------------------------------- bounds
MaxClock == 2          \* clock seconds 1..MaxClock that datetime.now() runs through
MaxSchedule == 2       \* schedule_meeting calls made by the environment
MaxCeiling == 2        \* largest configured max_concurrent_meetings
MaxEndCalls == 2       \* explicit end_meeting calls made by the environment
MaxEvents == 1         \* speech events the provider recognises
MaxMessages == 4       \* add_message and add_speaker_to_queue calls on a ConversationManager
MaxCallbacks == 2      \* callbacks added for one meeting id
MaxMinutes == 2        \* minutes that pass during a conversation

\* ------------------------------------------------------------- values
SCHEDULED == "scheduled"
STARTING == "starting"
ACTIVE == "active"
ENDING == "ending"
COMPLETED == "completed"
FAILED == "failed"
MeetingState == {SCHEDULED, STARTING, ACTIVE, ENDING, COMPLETED, FAILED}

\* self.agents: the agent registry handed to initialize(), keyed by agent id
agents == {"sarah", "vivek"}

\* a value that is None or was never set
Missing == "<missing>"

\* the empty string schedule_meeting returns on failure; ids are clock seconds >= 1
EmptyId == 0

\* the values of the enum SpeechProvider (speech_processing/speech_manager.py)
SpeechProvider == {"azure", "google_cloud", "whisper"}

\* meeting_config dicts handed to schedule_meeting
RequiredKeys == {"title", "participants", "start_time"}

ValidConfigs ==
    [keys : {RequiredKeys},
     title : {"Standup"},
     participants : {<<"sarah">>, <<"sarah", "vivek">>},
     start_time : {"past", "future"},
     meeting_url : {Missing, "url"},
     enable_transcription : BOOLEAN,
     speech_provider : {Missing}]

BaseConfig ==
    [keys |-> RequiredKeys,
     title |-> "Standup", participants |-> <<"sarah">>, start_time |-> "past",
     meeting_url |-> "url", enable_transcription |-> FALSE, speech_provider |-> Missing]

OddConfigs ==
    { [BaseConfig EXCEPT !.keys = RequiredKeys \ {k}] : k \in RequiredKeys }
    \cup
    { [BaseConfig EXCEPT !.title = ""],
      [BaseConfig EXCEPT !.participants = <<>>],
      [BaseConfig EXCEPT !.participants = <<"nonexistent_agent">>],
      [BaseConfig EXCEPT !.start_time = "aware"],
      [BaseConfig EXCEPT !.enable_transcription = TRUE, !.speech_provider = "aws"] }

Configs == ValidConfigs \cup OddConfigs

\* the runs explored: one meeting that is listened to and ended by its users,
\* more than once; one meeting that is listened to, spoken in and ended; one
\* meeting that is listened to by several callbacks, some of which raise, and
\* ended; one meeting that is ended by its users and torn down by cleanup();
\* several schedule_meeting calls whose meetings are left to start and time out
Workloads ==
    { [ceiling |-> MaxCeiling, schedule |-> 1, end |-> MaxEndCalls, events |-> 0,
       callbacks |-> 1, cleanup |-> FALSE],
      [ceiling |-> MaxCeiling, schedule |-> 1, end |-> 1, events |-> MaxEvents,
       callbacks |-> 1, cleanup |-> FALSE],
      [ceiling |-> MaxCeiling, schedule |-> 1, end |-> 1, events |-> 0,
       callbacks |-> MaxCallbacks, cleanup |-> FALSE],
      [ceiling |-> MaxCeiling, schedule |-> 1, end |-> 1, events |-> 0,
       callbacks |-> 0, cleanup |-> TRUE] }
    \cup
    { [ceiling |-> c, schedule |-> MaxSchedule, end |-> 0, events |-> 0,
       callbacks |-> 0, cleanup |-> FALSE] : c \in 1..MaxCeiling }

VARIABLES
    workload,                \* what the users of the orchestrator do in this run
    now,                     \* datetime.now(), in whole seconds
    max_concurrent_meetings, \* self.max_concurrent_meetings
    active_meetings,         \* self.active_meetings: meeting id -> record (an index of records)
    records,                 \* the meeting record dicts ever created, in creation order
    meeting_callbacks,       \* self.meeting_callbacks: meeting id -> list of callbacks
    active_transcriptions,   \* speech_manager.active_transcriptions (its keys)
    sched,                   \* schedule_meeting calls suspended in _create_meeting_url
    schedule_returns,        \* values returned by finished schedule_meeting calls
    tasks,                   \* the other coroutines: start, join, end, watchdog, callback
    cleanup,                 \* the cleanup() call: its position and the ids it has yet to visit
    events,                  \* speech events recognised so far
    \* ConversationManager (meeting_engine/conversation_manager.py)
    strategy,                \* self.strategy
    state,                   \* self.state
    current_speaker,         \* self.current_speaker
    speaking_queue,          \* self.speaking_queue
    conversation_history,    \* self.conversation_history: its last message, after one Earlier
                             \* for each message before it
    participants,            \* self.participants
    facilitator,             \* self.facilitator
    turn_counts,             \* self.turn_counts
    last_speaker_time,       \* self.last_speaker_time
    clock,                   \* datetime.now() as the conversation sees it, in minutes
    added,                   \* add_message calls made so far
    \* _should_agent_respond (meeting_engine/audio_meeting_orchestrator.py)
    should_respond,          \* a call of it: the agent, the message and the value returned
    \* MeetingSimulator and Meeting (meeting_engine/meeting_simulator.py)
    simulator,               \* the MeetingSimulator: active_meetings (ids), meeting_history
    meetings,                \* the Meeting objects created, by meeting id
    flow,                    \* where the task that drives the simulator is
    agent_calls              \* the calls made on the agents, in order

\* the state of the orchestrator and the state of a ConversationManager
mvars == <<workload, now, max_concurrent_meetings, active_meetings, records, meeting_callbacks,
           active_transcriptions, sched, schedule_returns, tasks, cleanup, events>>
cvars == <<strategy, state, current_speaker, speaking_queue, conversation_history, participants,
           facilitator, turn_counts, last_speaker_time, clock, added>>

svars == <<simulator, meetings, flow, agent_calls>>

vars == <<mvars, cvars, should_respond, svars>>

\* ------------------------------------------------------------- helpers
One(t) == SetToBag({t})

\* number of tasks in the bag that satisfy P
RECURSIVE BagSum(_, _)
BagSum(B, S) ==
    IF S = {} THEN 0
    ELSE LET t == CHOOSE x \in S : TRUE IN B[t] + BagSum(B, S \ {t})

CountTasks(P(_)) == BagSum(tasks, {t \in BagToSet(tasks) : P(t)})

Spawn(B, t) == B (+) One(t)
Drop(B, t) == B (-) One(t)
Move(B, t, u) == (B (-) One(t)) (+) One(u)

\* a coroutine: kind, position, the meeting_id argument, the record its local
\* variable `meeting` refers to (0: none), and kind-specific locals: owner (the
\* record whose start_meeting gathers a join), a (agent id or speaker), r (reason
\* of an end_meeting, type of a speech event), i (participants_joined entries the
\* leave loop has passed), ret (the value returned), seen (the state that the
\* guard of end_meeting read), text (of a speech event), failed (a collaborator
\* call awaited by the coroutine has failed)
Task(kind, pc, id, m) ==
    [kind |-> kind, pc |-> pc, id |-> id, m |-> m,
     owner |-> 0, a |-> "", r |-> "", i |-> 0, ret |-> FALSE, seen |-> "", text |-> "",
     failed |-> FALSE]

\* a finished call keeps only what its caller sees
Done(t, ret) ==
    [Task(t.kind, "done", t.id, t.m) EXCEPT !.ret = ret, !.r = t.r, !.seen = t.seen,
                                            !.failed = t.failed]

InRegistry(id) == id \in DOMAIN active_meetings

\* the callbacks of meeting_callbacks.get(id, [])
CallbacksOf(id) == IF id \in DOMAIN meeting_callbacks THEN meeting_callbacks[id] ELSE <<>>

\* ------------------------------------------------------------- schedule_meeting
\* f"meeting_{datetime.now().strftime('%Y%m%d_%H%M%S')}": one id per clock second
MeetingId(t) == t

_validate_meeting_config(config) ==
    /\ \A field \in RequiredKeys : field \in config.keys
    /\ \A k \in 1..Len(config.participants) : config.participants[k] \in agents

meeting_record(id, config) ==
    [id |-> id,
     title |-> config.title,
     participants |-> config.participants,
     enable_transcription |-> config.enable_transcription,
     speech_provider |-> config.speech_provider,
     state |-> SCHEDULED,
     transcript |-> <<>>,
     participants_joined |-> <<>>,
     end_time |-> 0,         \* 0: the key is not set
     end_reason |-> Missing,
     summary |-> Missing,
     \* observations of what was done with the record
     evaluated |-> 0,        \* _process_transcription_for_agents calls
     started |-> 0,          \* callbacks invoked with meeting_started
     ended |-> 0,            \* callbacks invoked with meeting_ended
     processed |-> 0,        \* _process_meeting_completion calls
     left |-> {},            \* agents that platform_manager.leave_meeting was called for
     accepted |-> <<>>]      \* reasons of the end_meeting calls that passed the guard, in order

\* lines 119-152: insert the record, then compute start_delay and create the start task
Register(id, config) ==
    /\ records' = Append(records, meeting_record(id, config))
    /\ active_meetings' =
          [k \in DOMAIN active_meetings \cup {id} |->
              IF k = id THEN Len(records) + 1 ELSE active_meetings[k]]
    /\ IF config.start_time = "aware"
         THEN \* a timezone-aware start_time (or one that is no datetime): line 140,
              \* start_time - datetime.now(), raises TypeError: except branch, return ""
              /\ tasks' = tasks
              /\ schedule_returns' = schedule_returns (+) One(EmptyId)
         ELSE /\ tasks' = Spawn(tasks, Task("start",
                              IF config.start_time = "future" THEN "timer" ELSE "created",
                              id, 0))
              /\ schedule_returns' = schedule_returns (+) One(id)

NumScheduleCalls == BagCardinality(sched) + BagCardinality(schedule_returns)

\* schedule_meeting up to its first suspension (or to its return)
ScheduleMeeting(config) ==
    /\ cleanup.pc = "idle"
    /\ NumScheduleCalls < workload.schedule
    /\ LET meeting_id == MeetingId(now) IN
       IF ~_validate_meeting_config(config)
           \/ Cardinality(DOMAIN active_meetings) >= max_concurrent_meetings
       THEN /\ schedule_returns' = schedule_returns (+) One(EmptyId)
            /\ UNCHANGED <<records, active_meetings, tasks, sched>>
       ELSE IF config.meeting_url = Missing
       THEN \* await self._create_meeting_url(meeting_config)
            /\ sched' = Spawn(sched, [id |-> meeting_id, config |-> config])
            /\ UNCHANGED <<records, active_meetings, tasks, schedule_returns>>
       ELSE /\ Register(meeting_id, config)
            /\ UNCHANGED sched
    /\ UNCHANGED <<cvars, should_respond, svars, workload, now, max_concurrent_meetings, meeting_callbacks,
                   active_transcriptions, cleanup, events>>

\* _create_meeting_url returns: url is "" when the platform collaborator failed
ScheduleResume(c, url_ok) ==
    /\ BagIn(c, sched)
    /\ sched' = Drop(sched, c)
    /\ IF url_ok
       THEN Register(c.id, c.config)
       ELSE /\ schedule_returns' = schedule_returns (+) One(EmptyId)
            /\ UNCHANGED <<records, active_meetings, tasks>>
    /\ UNCHANGED <<cvars, should_respond, svars, workload, now, max_concurrent_meetings, meeting_callbacks,
                   active_transcriptions, cleanup, events>>

\* the clock reaches the next second: only schedule_meeting reads the clock, so
\* the seconds before its first call and after its last one are left out
Tick ==
    /\ 0 < NumScheduleCalls /\ NumScheduleCalls < workload.schedule
    /\ now < MaxClock
    /\ now' = now + 1
    /\ UNCHANGED <<cvars, should_respond, svars, workload, max_concurrent_meetings, active_meetings, records,
                   meeting_callbacks, active_transcriptions, sched, schedule_returns, tasks,
                   cleanup, events>>

\* ------------------------------------------------------------- start_meeting
SetState(recs, m, st) == [recs EXCEPT ![m].state = st]

\* lines 244-254: one join task per participant that is a known agent
JoinTasks(id, m) ==
    SetToBag({ [Task("join", "created", id, 0) EXCEPT !.owner = m, !.a = records[m].participants[k]] :
                 k \in {k \in 1..Len(records[m].participants) :
                           records[m].participants[k] \in agents} })

\* lines 244-280 from the creation of the join tasks on; with no join task
\* gather() is already done and the zero-join branch runs at once
BeginJoins(t, m, recs) ==
    IF BagToSet(JoinTasks(t.id, m)) = {}
    THEN /\ records' = SetState(recs, m, FAILED)
         /\ tasks' = Move(tasks, t, Done([t EXCEPT !.m = m], FALSE))
    ELSE /\ records' = recs
         /\ tasks' = Move(tasks, t, [t EXCEPT !.pc = "joins", !.m = m]) (+) JoinTasks(t.id, m)

\* start_meeting from its first line (the timer of _schedule_meeting_start has
\* fired, or the task made by schedule_meeting runs) to its first suspension
StartMeeting(t) ==
    /\ BagIn(t, tasks)
    /\ t.kind = "start" /\ t.pc \in {"timer", "created"}
    /\ IF ~InRegistry(t.id)
       THEN /\ tasks' = Move(tasks, t, Done(t, FALSE))
            /\ UNCHANGED records
       ELSE LET m == active_meetings[t.id] IN
            IF records[m].state # SCHEDULED
            THEN /\ tasks' = Move(tasks, t, Done(t, FALSE))
                 /\ UNCHANGED records
            ELSE IF /\ records[m].enable_transcription
                    /\ records[m].speech_provider \notin SpeechProvider \cup {Missing}
            THEN \* SpeechProvider(speech_provider) raises ValueError: lines 276-280
                 /\ records' = SetState(records, m, FAILED)
                 /\ tasks' = Move(tasks, t, Done([t EXCEPT !.m = m], FALSE))
            ELSE IF records[m].enable_transcription /\ t.id \notin active_transcriptions
            THEN \* await speech_manager.start_meeting_transcription(...)
                 /\ records' = SetState(records, m, STARTING)
                 /\ tasks' = Move(tasks, t, [t EXCEPT !.pc = "transcription", !.m = m])
            ELSE BeginJoins(t, m, SetState(records, m, STARTING))
    /\ UNCHANGED <<cvars, should_respond, svars, workload, now, max_concurrent_meetings, active_meetings, meeting_callbacks,
                   active_transcriptions, sched, schedule_returns, cleanup, events>>

\* the provider answers start_meeting_transcription
StartTranscription(t, started) ==
    /\ BagIn(t, tasks)
    /\ t.kind = "start" /\ t.pc = "transcription"
    /\ active_transcriptions' =
          IF started THEN active_transcriptions \cup {t.id} ELSE active_transcriptions
    /\ BeginJoins(t, t.m, records)
    /\ UNCHANGED <<cvars, should_respond, svars, workload, now, max_concurrent_meetings, active_meetings, meeting_callbacks,
                   sched, schedule_returns, cleanup, events>>

\* _join_agent_to_meeting up to the await of platform_manager.join_meeting
JoinAgent(j) ==
    /\ BagIn(j, tasks)
    /\ j.kind = "join" /\ j.pc = "created"
    /\ IF InRegistry(j.id)
       THEN tasks' = Move(tasks, j, [j EXCEPT !.pc = "joining", !.m = active_meetings[j.id]])
       ELSE \* self.active_meetings[meeting_id] raises KeyError: return False
            tasks' = Move(tasks, j, [j EXCEPT !.pc = "done", !.ret = FALSE])
    /\ UNCHANGED <<cvars, should_respond, svars, workload, now, max_concurrent_meetings, active_meetings, records, meeting_callbacks,
                   active_transcriptions, sched, schedule_returns, cleanup, events>>

\* platform_manager.join_meeting answers
JoinResult(j, success) ==
    /\ BagIn(j, tasks)
    /\ j.kind = "join" /\ j.pc = "joining"
    /\ records' = IF success
                  THEN [records EXCEPT ![j.m].participants_joined = Append(@, j.a)]
                  ELSE records
    /\ tasks' = Move(tasks, j, [j EXCEPT !.pc = "done", !.ret = success])
    /\ UNCHANGED <<cvars, should_respond, svars, workload, now, max_concurrent_meetings, active_meetings, meeting_callbacks,
                   active_transcriptions, sched, schedule_returns, cleanup, events>>

JoinsOf(m) == {j \in BagToSet(tasks) : j.kind = "join" /\ j.owner = m}

\* a notification whose loop is left when a callback raises: the callbacks
\* invoked are those up to the first one that raises
Invoked_UntilRaise(callbacks) ==
    IF \E k \in 1..Len(callbacks) : callbacks[k] = "raises"
    THEN CHOOSE k \in 1..Len(callbacks) :
            callbacks[k] = "raises" /\ \A j \in 1..(k - 1) : callbacks[j] # "raises"
    ELSE Len(callbacks)

\* the number of callbacks that the loop of _notify_meeting_callbacks invokes:
\* the exception of a callback is caught inside the loop
Invoked(callbacks) == Len(callbacks)

\* _notify_meeting_callbacks: every callback of the id is invoked with the event
Notified(recs, m, id, event) ==
    IF event = "meeting_started"
    THEN [recs EXCEPT ![m].started = @ + Invoked(CallbacksOf(id))]
    ELSE [recs EXCEPT ![m].ended = @ + Invoked(CallbacksOf(id))]

\* gather() returns: lines 256-274
StartJoined(t) ==
    /\ BagIn(t, tasks)
    /\ t.kind = "start" /\ t.pc = "joins"
    /\ \A j \in JoinsOf(t.m) : j.pc = "done"
    /\ LET successful_joins == Cardinality({j \in JoinsOf(t.m) : j.ret})
           rest == [j \in BagToSet(tasks) \ JoinsOf(t.m) |-> tasks[j]]
       IN IF successful_joins > 0
          THEN /\ records' = Notified(SetState(records, t.m, ACTIVE), t.m, t.id,
                                       "meeting_started")
               /\ tasks' = Spawn(Move(rest, t,
                                  IF CallbacksOf(t.id) = <<>> THEN Done(t, TRUE)
                                  ELSE [t EXCEPT !.pc = "notify"]),
                                  Task("watchdog", "sleep", t.id, 0))
          ELSE /\ records' = SetState(records, t.m, FAILED)
               /\ tasks' = Move(rest, t, Done(t, FALSE))
    /\ UNCHANGED <<cvars, should_respond, svars, workload, now, max_concurrent_meetings, active_meetings, meeting_callbacks,
                   active_transcriptions, sched, schedule_returns, cleanup, events>>

\* the callbacks awaited by _notify_meeting_callbacks have returned (or raised)
StartReturn(t) ==
    /\ BagIn(t, tasks)
    /\ t.kind = "start" /\ t.pc = "notify"
    /\ tasks' = Move(tasks, t, Done(t, TRUE))
    /\ UNCHANGED <<cvars, should_respond, svars, workload, now, max_concurrent_meetings, active_meetings, records, meeting_callbacks,
                   active_transcriptions, sched, schedule_returns, cleanup, events>>

\* what a callback does when it is awaited; a callback that raises is added
\* only in the runs with more than one callback
CallbackKinds == IF workload.callbacks > 1 THEN {"returns", "raises"} ELSE {"returns"}

\* add_meeting_callback(meeting_id, callback), for a meeting id schedule_meeting returned
AddMeetingCallback(id, callback) ==
    /\ cleanup.pc = "idle"
    /\ InRegistry(id)
    /\ Len(CallbacksOf(id)) < workload.callbacks
    /\ meeting_callbacks' =
          [k \in DOMAIN meeting_callbacks \cup {id} |->
              IF k = id THEN Append(CallbacksOf(k), callback) ELSE CallbacksOf(k)]
    /\ UNCHANGED <<cvars, should_respond, svars, workload, now, max_concurrent_meetings, active_meetings, records,
                   active_transcriptions, sched, schedule_returns, tasks, cleanup, events>>

\* ------------------------------------------------------------- end_meeting
\* MeetingContext (agents/base_agent.py) is a pydantic model: constructing it
\* raises ValidationError unless every field without a default is supplied
MeetingContextRequired == {"meeting_id", "title", "participants", "start_time", "duration_minutes"}
MeetingContextSupplied == {"meeting_id", "title", "participants", "start_time", "agenda", "meeting_type"}
MeetingContextBuilt == MeetingContextRequired \subseteq MeetingContextSupplied

\* _process_meeting_completion: the registry lookup or the MeetingContext may
\* raise, which the method catches; otherwise the collaborator's results are stored
_process_meeting_completion(recs, m, id) ==
    LET counted == [recs EXCEPT ![m].processed = @ + 1] IN
    IF ~InRegistry(id) \/ ~MeetingContextBuilt
    THEN counted
    ELSE [counted EXCEPT ![active_meetings[id]].summary = "summary"]

\* lines 525-536, reached when the leave loop is over
Complete(e, recs) ==
    LET done == Notified([_process_meeting_completion(recs, e.m, e.id)
                            EXCEPT ![e.m].state = COMPLETED, ![e.m].end_time = now,
                                   ![e.m].end_reason = e.r],
                         e.m, e.id, "meeting_ended")
    IN <<done, IF CallbacksOf(e.id) = <<>> THEN Done(e, TRUE) ELSE [e EXCEPT !.pc = "notify"]>>

\* the leave loop from position i of participants_joined on: the next
\* leave_meeting is awaited, or the loop is over
LeaveFrom(e, recs) ==
    IF e.i < Len(recs[e.m].participants_joined)
    THEN <<[recs EXCEPT ![e.m].left = @ \cup {recs[e.m].participants_joined[e.i + 1]}],
           [e EXCEPT !.pc = "leave", !.i = e.i + 1]>>
    ELSE Complete(e, recs)

\* a collaborator call awaited by end_meeting has failed: the exception escapes
\* to the except of end_meeting, which returns False
CollaboratorFailed_Escapes(e, recs) == <<recs, Done([e EXCEPT !.failed = TRUE], FALSE)>>

\* a collaborator call awaited by end_meeting has failed: stop_meeting_transcription
\* and leave_meeting catch and log the exception, and end_meeting goes on
CollaboratorFailed(e, recs) == LeaveFrom([e EXCEPT !.failed = TRUE], recs)

\* the states end_meeting accepts (line 509)
Endable_AlsoEnding == {ACTIVE, STARTING, ENDING}
Endable_AlsoScheduled == {ACTIVE, STARTING, SCHEDULED}
Endable == {ACTIVE, STARTING}

\* line 514: the call has passed the guard
Accept(recs, m, reason) ==
    [recs EXCEPT ![m].state = ENDING, ![m].accepted = Append(@, reason)]

\* end_meeting(id, reason) from its first line to its first suspension:
\* the pair of the records and the coroutine after it
EndCall(e, recs) ==
    IF ~InRegistry(e.id)
    THEN <<recs, Done([e EXCEPT !.seen = Missing], FALSE)>>
    ELSE LET m == active_meetings[e.id]
             st == recs[m].state
             e1 == [e EXCEPT !.m = m, !.seen = st]
         IN IF st \notin Endable
            THEN <<recs, Done(e1, FALSE)>>
            ELSE IF recs[m].enable_transcription /\ e.id \in active_transcriptions
            THEN \* await speech_manager.stop_meeting_transcription(meeting_id)
                 <<Accept(recs, m, e.r), [e1 EXCEPT !.pc = "stop"]>>
            ELSE LeaveFrom(e1, Accept(recs, m, e.r))

\* the end_meeting coroutine for a call with this id and reason
EndTask(id, reason) == [Task("end", "call", id, 0) EXCEPT !.r = reason]

\* the loop of lines 656-659 from the ids in todo on, up to the next end_meeting
\* that suspends: <<records, tasks, ids left, position>>
RECURSIVE CleanupRun(_, _, _)
CleanupRun(todo, recs, B) ==
    IF todo = <<>>
    THEN <<recs, B, todo, "platform">>
    ELSE IF recs[active_meetings[Head(todo)]].state \in {ACTIVE, STARTING}
    THEN LET res == EndCall(EndTask(Head(todo), "cleanup"), recs) IN
         IF res[2].pc = "done"
         THEN CleanupRun(Tail(todo), res[1], Spawn(B, res[2]))
         ELSE <<res[1], Spawn(B, res[2]), Tail(todo), "ending">>
    ELSE CleanupRun(Tail(todo), recs, B)

\* the start timers, start tasks and watchdogs that have yet to run
Pending ==
    {t \in BagToSet(tasks) : \/ t.kind = "start" /\ t.pc \in {"timer", "created"}
                             \/ t.kind = "watchdog"}

\* cleanup.pending observes the coroutines that were pending when cleanup() was called
CleanupTo(res) ==
    /\ records' = res[1]
    /\ tasks' = res[2]
    /\ cleanup' = [pc |-> res[4], todo |-> res[3],
                   pending |-> IF cleanup.pc = "idle" THEN Pending ELSE cleanup.pending]

\* an end_meeting coroutine e resumes and runs to res = <<records, coroutine>>;
\* when it returns to the cleanup() that awaits it, cleanup() goes on with its
\* loop in the same step
EndResumed(e, res) ==
    IF e.r = "cleanup" /\ res[2].pc = "done"
    THEN CleanupTo(CleanupRun(cleanup.todo, res[1], Move(tasks, e, res[2])))
    ELSE /\ records' = res[1]
         /\ tasks' = Move(tasks, e, res[2])
         /\ UNCHANGED cleanup

NumEndCalls == CountTasks(LAMBDA t : t.kind = "end" /\ t.r = "manual")

\* end_meeting called by the user of the orchestrator
EndMeeting(id, reason) ==
    /\ cleanup.pc = "idle"
    /\ NumEndCalls < workload.end
    /\ LET res == EndCall(EndTask(id, reason), records) IN
         /\ records' = res[1]
         /\ tasks' = Spawn(tasks, res[2])
    /\ UNCHANGED <<cvars, should_respond, svars, workload, now, max_concurrent_meetings, active_meetings, meeting_callbacks,
                   active_transcriptions, sched, schedule_returns, cleanup, events>>

\* stop_meeting_transcription returns, the provider having stopped the stream
\* or not: the stream is gone from active_transcriptions
EndStopped(e, stopped) ==
    /\ BagIn(e, tasks)
    /\ e.kind = "end" /\ e.pc = "stop"
    /\ active_transcriptions' = active_transcriptions \ {e.id}
    /\ EndResumed(e, IF stopped THEN LeaveFrom(e, records) ELSE CollaboratorFailed(e, records))
    /\ UNCHANGED <<cvars, should_respond, svars, workload, now, max_concurrent_meetings, active_meetings, meeting_callbacks,
                   sched, schedule_returns, events>>

\* platform_manager.leave_meeting returns, the agent having left or not
EndLeft(e, gone) ==
    /\ BagIn(e, tasks)
    /\ e.kind = "end" /\ e.pc = "leave"
    /\ EndResumed(e, IF gone THEN LeaveFrom(e, records) ELSE CollaboratorFailed(e, records))
    /\ UNCHANGED <<cvars, should_respond, svars, workload, now, max_concurrent_meetings, active_meetings, meeting_callbacks,
                   active_transcriptions, sched, schedule_returns, events>>

\* the callbacks awaited by _notify_meeting_callbacks have returned (or raised)
EndReturn(e) ==
    /\ BagIn(e, tasks)
    /\ e.kind = "end" /\ e.pc = "notify"
    /\ EndResumed(e, <<records, Done(e, TRUE)>>)
    /\ UNCHANGED <<cvars, should_respond, svars, workload, now, max_concurrent_meetings, active_meetings, meeting_callbacks,
                   active_transcriptions, sched, schedule_returns, events>>

\* _setup_meeting_timeout: the sleep is over
WatchdogFire(w) ==
    /\ BagIn(w, tasks)
    /\ w.kind = "watchdog"
    /\ IF InRegistry(w.id) /\ records[active_meetings[w.id]].state = ACTIVE
       THEN LET res == EndCall(EndTask(w.id, "timeout"), records) IN
              /\ records' = res[1]
              /\ tasks' = Move(tasks, w, res[2])
       ELSE /\ tasks' = Drop(tasks, w)
            /\ UNCHANGED records
    /\ UNCHANGED <<cvars, should_respond, svars, workload, now, max_concurrent_meetings, active_meetings, meeting_callbacks,
                   active_transcriptions, sched, schedule_returns, cleanup, events>>

\* ------------------------------------------------------------- text
\* str.lower() on the letters A-Z
UpperLetters == "ABCDEFGHIJKLMNOPQRSTUVWXYZ"
LowerLetters == "abcdefghijklmnopqrstuvwxyz"

LowerChar(c) ==
    IF \E i \in 1..Len(UpperLetters) : SubSeq(UpperLetters, i, i) = c
    THEN LET i == CHOOSE i \in 1..Len(UpperLetters) : SubSeq(UpperLetters, i, i) = c
         IN SubSeq(LowerLetters, i, i)
    ELSE c

RECURSIVE Lower(_)
Lower(text) ==
    IF text = "" THEN ""
    ELSE LowerChar(SubSeq(text, 1, 1)) \o Lower(SubSeq(text, 2, Len(text)))

\* pattern in text
Contains(text, pattern) ==
    \E i \in 0..(Len(text) - Len(pattern)) : SubSeq(text, i + 1, i + Len(pattern)) = pattern

\* str.strip()
Whitespace == {" ", "\t", "\n", "\r"}

RECURSIVE Strip(_)
Strip(text) ==
    IF text = "" THEN ""
    ELSE IF SubSeq(text, 1, 1) \in Whitespace THEN Strip(SubSeq(text, 2, Len(text)))
    ELSE IF SubSeq(text, Len(text), Len(text)) \in Whitespace
    THEN Strip(SubSeq(text, 1, Len(text) - 1))
    ELSE text

\* str.endswith(suffix)
EndsWith(text, suffix) ==
    Len(text) >= Len(suffix) /\ SubSeq(text, Len(text) - Len(suffix) + 1, Len(text)) = suffix

\* ------------------------------------------------------------- transcription
\* agent.employee_config.name of the registered agents
employee_name == [a \in agents |-> IF a = "sarah" THEN "Sarah" ELSE "Vivek"]

response_triggers ==
    <<"status", "update", "progress", "working on", "blocker",
      "blocked", "impediment", "help", "question">>

\* a decision that looks for the question mark without trimming the message
_should_agent_respond_NoStrip(agent_name, content) ==
    LET message_lower == Lower(content) IN
    \/ Contains(message_lower, Lower(agent_name))
    \/ \E k \in 1..Len(response_triggers) : Contains(message_lower, response_triggers[k])
    \/ EndsWith(content, "?")

\* _should_agent_respond(agent, message, context), by the name of the agent
\* and the content of the message
_should_agent_respond(agent_name, content) ==
    LET message_lower == Lower(content) IN
    \/ Contains(message_lower, Lower(agent_name))
    \/ \E k \in 1..Len(response_triggers) : Contains(message_lower, response_triggers[k])
    \/ EndsWith(Strip(content), "?")

\* the provider recognises speech on a running stream and schedules the
\* meeting's callback (speech_processing/azure_speech.py, asyncio.create_task)
SpeechEvent(id, type, speaker, text) ==
    /\ events < workload.events
    /\ id \in active_transcriptions
    /\ events' = events + 1
    /\ tasks' = Spawn(tasks, [Task("callback", "created", id, 0)
                                 EXCEPT !.r = type, !.a = speaker, !.text = text])
    /\ UNCHANGED <<cvars, should_respond, svars, workload, now, max_concurrent_meetings, active_meetings, records, meeting_callbacks,
                   active_transcriptions, sched, schedule_returns, cleanup>>

\* _process_transcription_for_agents: the response tasks it creates.  The
\* MeetingContext is built before the loop over participants_joined, and an
\* exception ends the method in its except branch
_process_transcription_for_agents(rec, id, speaker, text) ==
    IF ~MeetingContextBuilt
    THEN EmptyBag
    ELSE SetToBag({ [Task("response", "created", id, 0) EXCEPT !.a = rec.participants_joined[k]] :
                      k \in {k \in 1..Len(rec.participants_joined) :
                                /\ rec.participants_joined[k] \in agents
                                /\ speaker # employee_name[rec.participants_joined[k]]
                                /\ _should_agent_respond(employee_name[rec.participants_joined[k]],
                                                         text)} })

\* whether transcription_callback hands a result of this type on to
\* _process_transcription_for_agents (line 341)
ProcessedForAgents_AnyType(type) == type \in {"partial", "final"}
ProcessedForAgents(type) == type = "final"

\* transcription_callback(result) of _create_meeting_transcription_callback
TranscriptionCallback(c) ==
    /\ BagIn(c, tasks)
    /\ c.kind = "callback"
    /\ IF InRegistry(c.id)
       THEN LET m == active_meetings[c.id]
                entry == [type |-> c.r, speaker |-> c.a, text |-> c.text]
                appended == [records EXCEPT ![m].transcript = Append(@, entry)]
            IN IF ProcessedForAgents(c.r)
               THEN /\ records' = [appended EXCEPT ![m].evaluated = @ + 1]
                    /\ tasks' = Drop(tasks, c)
                                   (+) _process_transcription_for_agents(records[m], c.id, c.a, c.text)
               ELSE /\ records' = appended
                    /\ tasks' = Drop(tasks, c)
       ELSE /\ tasks' = Drop(tasks, c)
            /\ UNCHANGED records
    /\ UNCHANGED <<cvars, should_respond, svars, workload, now, max_concurrent_meetings, active_meetings, meeting_callbacks,
                   active_transcriptions, sched, schedule_returns, cleanup, events>>

\* ------------------------------------------------------------- cleanup
NoMeetings == [k \in {} |-> 0]

\* the orders in which list(self.active_meetings.keys()) may hold the ids
KeyLists ==
    {s \in UNION {[1..n -> DOMAIN active_meetings] : n \in {Cardinality(DOMAIN active_meetings)}} :
        \A i, j \in 1..Len(s) : i # j => s[i] # s[j]}

\* cleanup() is called
Cleanup ==
    /\ workload.cleanup
    /\ cleanup.pc = "idle"
    /\ \E keys \in KeyLists : CleanupTo(CleanupRun(keys, records, tasks))
    /\ UNCHANGED <<cvars, should_respond, svars, workload, now, max_concurrent_meetings, active_meetings, meeting_callbacks,
                   active_transcriptions, sched, schedule_returns, events>>

\* platform_manager.cleanup() has returned; speech_manager.cleanup() is awaited
CleanupPlatform ==
    /\ cleanup.pc = "platform"
    /\ cleanup' = [cleanup EXCEPT !.pc = "speech"]
    /\ UNCHANGED <<cvars, should_respond, svars, workload, now, max_concurrent_meetings, active_meetings, records, meeting_callbacks,
                   active_transcriptions, sched, schedule_returns, tasks, events>>

\* speech_manager.cleanup() has stopped every transcription and returned:
\* lines 668-669 clear the registry and the callbacks
CleanupSpeech ==
    /\ cleanup.pc = "speech"
    /\ active_transcriptions' = {}
    /\ active_meetings' = NoMeetings
    /\ meeting_callbacks' = NoMeetings
    /\ cleanup' = [cleanup EXCEPT !.pc = "done"]
    /\ UNCHANGED <<cvars, should_respond, svars, workload, now, max_concurrent_meetings, records, sched, schedule_returns,
                   tasks, events>>

\* ------------------------------------------------------------- ConversationManager
ROUND_ROBIN == "round_robin"
PRIORITY_BASED == "priority_based"
NATURAL_FLOW == "natural_flow"
FACILITATOR_CONTROLLED == "facilitator_controlled"
TurnTakingStrategy == {ROUND_ROBIN, PRIORITY_BASED, NATURAL_FLOW, FACILITATOR_CONTROLLED}

IDLE == "idle"
GENERAL == "general"
QUESTION == "question"

max_consecutive_turns == 3
RecentMinutes == 2
datetime_min == 0

NoTimes == [k \in {} |-> 0]

\* the conversations explored: participants and the facilitator argument
\* ("F" is no participant)
Conversations ==
    { [participants |-> <<"A", "B", "C">>, facilitator |-> "B"],
      [participants |-> <<"A", "B">>, facilitator |-> "F"] }

\* the messages spoken: without marker, with a marker and two names, a question
\* with a marker and no name
Plain == [content |-> "Fine", message_type |-> GENERAL]
Addressed == [content |-> "B, C?", message_type |-> GENERAL]
Asked == [content |-> "Input", message_type |-> QUESTION]

\* the messages that make a difference under a strategy
Messages(s) ==
    CASE s = NATURAL_FLOW -> {Plain, Addressed, Asked}
      [] s = FACILITATOR_CONTROLLED -> {Plain, Addressed}
      [] OTHER -> {Plain}

\* "C" is no participant of the conversation of "A" and "B"
Speakers == {"A", "B", "C"}

IndexOf(seq, x) == CHOOSE i \in 1..Len(seq) : seq[i] = x /\ \A j \in 1..(i - 1) : seq[j] # x

InSeq(seq, x) == \E i \in 1..Len(seq) : seq[i] = x

\* min(seq, key=Key): the first member with the least key
MinBy(seq, Key(_)) ==
    seq[CHOOSE i \in 1..Len(seq) :
            /\ \A j \in 1..Len(seq) : Key(seq[i]) <= Key(seq[j])
            /\ \A j \in 1..(i - 1) : Key(seq[j]) > Key(seq[i])]

\* dict.get(p, datetime.min)
TimeOf(times, p) == IF p \in DOMAIN times THEN times[p] ELSE datetime_min

\* the keys of turn_counts in insertion order: the participants, then the
\* facilitator if start_conversation counted a message of a facilitator that is
\* no participant
TurnKeys(counts) ==
    participants \o (IF facilitator \in DOMAIN counts /\ ~InSeq(participants, facilitator)
                     THEN <<facilitator>> ELSE <<>>)

\* a message of the history that is not the last one
Earlier == [speaker |-> "", content |-> "", message_type |-> ""]

\* sum(self.turn_counts.values())
RECURSIVE SumOf(_, _)
SumOf(counts, keys) ==
    IF keys = {} THEN 0
    ELSE LET k == CHOOSE x \in keys : TRUE IN counts[k] + SumOf(counts, keys \ {k})

\* get_conversation_stats: total_messages
total_messages == Len(conversation_history)

\* the manager is initialized for its first conversation, or for a second one
\* once the calls of the first one are used up
initialize_conversation(new_participants, new_facilitator) ==
    /\ \/ participants = <<>>
       \/ /\ added = MaxMessages
          /\ conversation_history # <<>>
          /\ total_messages = SumOf(turn_counts, DOMAIN turn_counts)
    /\ participants' = new_participants
    /\ facilitator' = IF new_facilitator = Missing THEN new_participants[1] ELSE new_facilitator
    /\ speaking_queue' = <<>>
    /\ turn_counts' = [p \in {new_participants[k] : k \in 1..Len(new_participants)} |-> 0]
    /\ last_speaker_time' = NoTimes
    /\ state' = IDLE
    /\ UNCHANGED <<mvars, should_respond, svars, strategy, current_speaker, conversation_history, clock, added>>

\* _add_message: the history, the speaker, the counts and the times after it
_add_message(speaker, message) ==
    /\ conversation_history' =
          Append([k \in 1..Len(conversation_history) |-> Earlier],
                 [speaker |-> speaker, content |-> message.content,
                  message_type |-> message.message_type])
    /\ current_speaker' = speaker
    /\ turn_counts' = [p \in DOMAIN turn_counts \cup {speaker} |->
                          IF p = speaker
                          THEN (IF p \in DOMAIN turn_counts THEN turn_counts[p] ELSE 0) + 1
                          ELSE turn_counts[p]]
    /\ last_speaker_time' = [p \in DOMAIN last_speaker_time \cup {speaker} |->
                                IF p = speaker THEN clock ELSE last_speaker_time[p]]

start_conversation(opening_message) ==
    /\ participants # <<>>
    /\ state = IDLE
    /\ state' = ACTIVE
    /\ IF opening_message # Missing
       THEN _add_message(facilitator, [content |-> opening_message, message_type |-> GENERAL])
       ELSE UNCHANGED <<conversation_history, current_speaker, turn_counts, last_speaker_time>>
    /\ UNCHANGED <<mvars, should_respond, svars, strategy, speaking_queue, participants, facilitator, clock, added>>

\* a round robin that stops at the last participant instead of wrapping around
_handle_round_robin_NoWrap(queue, speaker) ==
    LET current_index == IndexOf(participants, speaker)
        next_speaker == participants[IF current_index < Len(participants)
                                     THEN current_index + 1 ELSE current_index]
    IN IF next_speaker # speaker THEN Append(queue, next_speaker) ELSE queue

_handle_round_robin(queue, speaker) ==
    LET current_index == IndexOf(participants, speaker)
        next_speaker == participants[(current_index % Len(participants)) + 1]
    IN IF next_speaker # speaker THEN Append(queue, next_speaker) ELSE queue

_handle_priority_based(queue, speaker, counts) ==
    LET least_spoken == MinBy(TurnKeys(counts), LAMBDA p : counts[p])
    IN IF least_spoken # speaker /\ counts[least_spoken] < counts[speaker]
       THEN Append(queue, least_spoken)
       ELSE queue

response_indicators ==
    <<"?", "question", "what do you think", "thoughts", "opinion",
      "agree", "disagree", "feedback", "input", "comment">>

_message_requires_response(message) ==
    LET content_lower == Lower(message.content) IN
    \E k \in 1..Len(response_indicators) : Contains(content_lower, response_indicators[k])

_message_mentions_participant(message) ==
    LET content_lower == Lower(message.content) IN
    \E k \in 1..Len(participants) : Contains(content_lower, Lower(participants[k]))

\* the first participant whose name is in the message
_extract_mentioned_participant(message) ==
    LET content_lower == Lower(message.content) IN
    participants[CHOOSE k \in 1..Len(participants) :
                    /\ Contains(content_lower, Lower(participants[k]))
                    /\ \A j \in 1..(k - 1) : ~Contains(content_lower, Lower(participants[j]))]

\* Missing stands for None
_find_appropriate_responder(message, times) ==
    IF _message_mentions_participant(message)
    THEN _extract_mentioned_participant(message)
    ELSE IF message.message_type = QUESTION
    THEN LET non_recent_speakers ==
                 SelectSeq(participants,
                        LAMBDA p : /\ ~(TimeOf(times, p) > clock - RecentMinutes)
                                   /\ p # message.speaker)
         IN IF non_recent_speakers # <<>> THEN non_recent_speakers[1] ELSE Missing
    ELSE Missing

\* a natural flow that hands the turn over only when the message asks for a
\* response
_handle_natural_flow_OnlyWhenAsked(queue, speaker, message, counts, times) ==
    LET responder == _find_appropriate_responder(message, times)
        other_participants == SelectSeq(participants, LAMBDA p : p # speaker)
    IN IF ~_message_requires_response(message)
       THEN queue
       ELSE LET answered == IF responder # Missing /\ responder # speaker
                            THEN Append(queue, responder)
                            ELSE queue
            IN IF counts[speaker] >= max_consecutive_turns /\ other_participants # <<>>
               THEN Append(answered, MinBy(other_participants, LAMBDA p : TimeOf(times, p)))
               ELSE answered

_handle_natural_flow(queue, speaker, message, counts, times) ==
    LET responder == _find_appropriate_responder(message, times)
        answered == IF /\ _message_requires_response(message)
                       /\ responder # Missing /\ responder # speaker
                    THEN Append(queue, responder)
                    ELSE queue
        other_participants == SelectSeq(participants, LAMBDA p : p # speaker)
    IN IF counts[speaker] >= max_consecutive_turns /\ other_participants # <<>>
       THEN Append(answered, MinBy(other_participants, LAMBDA p : TimeOf(times, p)))
       ELSE answered

_handle_facilitator_controlled(queue, speaker, message) ==
    IF speaker = facilitator /\ _message_mentions_participant(message)
    THEN Append(queue, _extract_mentioned_participant(message))
    ELSE queue

\* _process_turn_taking on the state that _add_message has left
_process_turn_taking(queue, speaker, message, counts, times) ==
    CASE strategy = ROUND_ROBIN -> _handle_round_robin(queue, speaker)
      [] strategy = PRIORITY_BASED -> _handle_priority_based(queue, speaker, counts)
      [] strategy = NATURAL_FLOW -> _handle_natural_flow(queue, speaker, message, counts, times)
      [] strategy = FACILITATOR_CONTROLLED -> _handle_facilitator_controlled(queue, speaker, message)

add_message(speaker, message) ==
    /\ participants # <<>>
    /\ added < MaxMessages
    /\ added' = added + 1
    /\ IF ~InSeq(participants, speaker)
       THEN UNCHANGED <<conversation_history, current_speaker, turn_counts, last_speaker_time,
                        speaking_queue>>
       ELSE /\ _add_message(speaker, message)
            /\ speaking_queue' =
                  _process_turn_taking(speaking_queue, speaker,
                                       [speaker |-> speaker, content |-> message.content,
                                        message_type |-> message.message_type],
                                       turn_counts', last_speaker_time')
    /\ UNCHANGED <<mvars, should_respond, svars, strategy, state, participants, facilitator, clock>>

\* returns the head of the queue, or None when the queue is empty
get_next_speaker ==
    /\ speaking_queue # <<>>
    /\ speaking_queue' = Tail(speaking_queue)
    /\ UNCHANGED <<mvars, should_respond, svars, strategy, state, current_speaker, conversation_history, participants,
                   facilitator, turn_counts, last_speaker_time, clock, added>>

add_speaker_to_queue(speaker) ==
    /\ participants # <<>>
    /\ added < MaxMessages
    /\ added' = added + 1
    /\ InSeq(participants, speaker) /\ ~InSeq(speaking_queue, speaker)
    /\ speaking_queue' = Append(speaking_queue, speaker)
    /\ UNCHANGED <<mvars, should_respond, svars, strategy, state, current_speaker, conversation_history, participants,
                   facilitator, turn_counts, last_speaker_time, clock>>

\* a minute passes between two calls (only natural_flow reads the clock)
Minute ==
    /\ participants # <<>>
    /\ strategy = NATURAL_FLOW
    /\ clock < RecentMinutes + 1 + MaxMinutes
    /\ clock' = clock + 1
    /\ UNCHANGED <<mvars, should_respond, svars, strategy, state, current_speaker, speaking_queue, conversation_history,
                   participants, facilitator, turn_counts, last_speaker_time, added>>

\* ------------------------------------------------------------- specification
Ids == 1..MaxClock

\* a ConversationManager as __init__ leaves it; datetime.min lies before every
\* window of RecentMinutes
ConversationConstructed ==
    /\ state = IDLE
    /\ current_speaker = Missing
    /\ speaking_queue = <<>>
    /\ conversation_history = <<>>
    /\ participants = <<>>
    /\ facilitator = Missing
    /\ turn_counts = NoTimes
    /\ last_speaker_time = NoTimes
    /\ clock = RecentMinutes + 1
    /\ added = 0

\* a MeetingSimulator as constructed, and a driver that has called nothing
SimulatorConstructed ==
    /\ simulator = [active_meetings |-> {}, meeting_history |-> <<>>]
    /\ meetings = <<>>
    /\ flow = [pc |-> "idle", m |-> 0, i |-> 0, caller |-> ""]
    /\ agent_calls = <<>>

\* no call of _should_agent_respond is under way
NoDecision ==
    [agent_name |-> "", content |-> "", named |-> FALSE, trigger |-> FALSE, question |-> FALSE,
     decided |-> FALSE, value |-> FALSE]

Init ==
    /\ strategy = NATURAL_FLOW
    /\ ConversationConstructed
    /\ should_respond = NoDecision
    /\ SimulatorConstructed
    /\ workload \in Workloads
    /\ now = 1
    /\ max_concurrent_meetings = workload.ceiling
    /\ active_meetings = NoMeetings
    /\ records = <<>>
    /\ meeting_callbacks = NoMeetings
    /\ active_transcriptions = {}
    /\ sched = EmptyBag
    /\ schedule_returns = EmptyBag
    /\ tasks = EmptyBag
    /\ cleanup = [pc |-> "idle", todo |-> <<>>, pending |-> {}]
    /\ events = 0

Next ==
    \/ Tick
    \/ \E config \in Configs : ScheduleMeeting(config)
    \/ \E c \in BagToSet(sched), url_ok \in BOOLEAN : ScheduleResume(c, url_ok)
    \/ \E id \in Ids, callback \in CallbackKinds : AddMeetingCallback(id, callback)
    \/ \E t \in BagToSet(tasks) : StartMeeting(t)
    \/ \E t \in BagToSet(tasks), started \in BOOLEAN : StartTranscription(t, started)
    \/ \E t \in BagToSet(tasks) : JoinAgent(t)
    \/ \E t \in BagToSet(tasks), success \in BOOLEAN : JoinResult(t, success)
    \/ \E t \in BagToSet(tasks) : StartJoined(t)
    \/ \E t \in BagToSet(tasks) : StartReturn(t)
    \/ \E id \in Ids : EndMeeting(id, "manual")
    \/ \E t \in BagToSet(tasks), stopped \in BOOLEAN : EndStopped(t, stopped)
    \/ \E t \in BagToSet(tasks), gone \in BOOLEAN : EndLeft(t, gone)
    \/ \E t \in BagToSet(tasks) : EndReturn(t)
    \/ \E t \in BagToSet(tasks) : WatchdogFire(t)
    \/ \E id \in Ids, type \in {"partial", "final"}, speaker \in {"Sarah", "Guest"},
          text \in {"What's your status, Sarah?", "Looks good."} :
          SpeechEvent(id, type, speaker, text)
    \/ \E t \in BagToSet(tasks) : TranscriptionCallback(t)
    \/ Cleanup
    \/ CleanupPlatform
    \/ CleanupSpeech

Spec == Init /\ [][Next]_vars

\* the event loop runs every coroutine that is ready: a collaborator call that
\* end_meeting awaits returns or fails, and the callbacks it awaits return
EndFairness ==
    /\ WF_vars(\E t \in BagToSet(tasks), stopped \in BOOLEAN : EndStopped(t, stopped))
    /\ WF_vars(\E t \in BagToSet(tasks), gone \in BOOLEAN : EndLeft(t, gone))
    /\ WF_vars(\E t \in BagToSet(tasks) : EndReturn(t))

LiveSpec == Init /\ [][Next]_vars /\ EndFairness

\* a ConversationManager on its own, with an orchestrator that is not used
ConversationInit ==
    /\ strategy \in TurnTakingStrategy
    /\ ConversationConstructed
    /\ should_respond = NoDecision
    /\ SimulatorConstructed
    /\ workload = [ceiling |-> MaxCeiling, schedule |-> 0, end |-> 0, events |-> 0,
                   callbacks |-> 0, cleanup |-> FALSE]
    /\ now = 1
    /\ max_concurrent_meetings = workload.ceiling
    /\ active_meetings = NoMeetings
    /\ records = <<>>
    /\ meeting_callbacks = NoMeetings
    /\ active_transcriptions = {}
    /\ sched = EmptyBag
    /\ schedule_returns = EmptyBag
    /\ tasks = EmptyBag
    /\ cleanup = [pc |-> "idle", todo |-> <<>>, pending |-> {}]
    /\ events = 0

ConversationNext ==
    \/ \E c \in Conversations : initialize_conversation(c.participants, c.facilitator)
    \/ \E opening_message \in {"Welcome"} : start_conversation(opening_message)
    \/ \E speaker \in Speakers, message \in Messages(strategy) : add_message(speaker, message)
    \/ get_next_speaker
    \/ \E speaker \in Speakers : add_speaker_to_queue(speaker)
    \/ Minute

ConversationSpec == ConversationInit /\ [][ConversationNext]_vars

\* _should_agent_respond on its own.  A message is put together from an
\* opening, a topic, an addressee and an ending, and carries with it what its
\* parts say: whom it names, whether its topic is a trigger and whether it
\* ends as a question.
DecisionAgents == {"Sarah", "John", "Vivek"}

Openings == {"", "What's your ", "Looks "}

Topics ==
    {[text |-> response_triggers[k], trigger |-> TRUE] : k \in 1..Len(response_triggers)}
    \cup {[text |-> "STATUS", trigger |-> TRUE], [text |-> "Helpful", trigger |-> TRUE],
          [text |-> "good", trigger |-> FALSE], [text |-> "stats", trigger |-> FALSE]}

Addressees ==
    {[text |-> "", names |-> {}], [text |-> ", Sarah", names |-> {"Sarah"}],
     [text |-> ", SARAH", names |-> {"Sarah"}], [text |-> " john", names |-> {"John"}]}

Endings ==
    {[text |-> "", question |-> FALSE], [text |-> ".", question |-> FALSE],
     [text |-> "?", question |-> TRUE], [text |-> "? ", question |-> TRUE],
     [text |-> "?.", question |-> FALSE]}

DecisionInputs ==
    {[agent_name |-> a, content |-> o \o t.text \o d.text \o e.text,
      named |-> a \in d.names, trigger |-> t.trigger, question |-> e.question,
      decided |-> FALSE, value |-> FALSE] :
        a \in DecisionAgents, o \in Openings, t \in Topics, d \in Addressees, e \in Endings}

DecisionInit ==
    /\ should_respond \in DecisionInputs
    /\ SimulatorConstructed
    /\ strategy = NATURAL_FLOW
    /\ ConversationConstructed
    /\ workload = [ceiling |-> MaxCeiling, schedule |-> 0, end |-> 0, events |-> 0,
                   callbacks |-> 0, cleanup |-> FALSE]
    /\ now = 1
    /\ max_concurrent_meetings = workload.ceiling
    /\ active_meetings = NoMeetings
    /\ records = <<>>
    /\ meeting_callbacks = NoMeetings
    /\ active_transcriptions = {}
    /\ sched = EmptyBag
    /\ schedule_returns = EmptyBag
    /\ tasks = EmptyBag
    /\ cleanup = [pc |-> "idle", todo |-> <<>>, pending |-> {}]
    /\ events = 0

ShouldAgentRespond ==
    /\ ~should_respond.decided
    /\ should_respond' =
          [should_respond EXCEPT !.decided = TRUE,
                                 !.value = _should_agent_respond(should_respond.agent_name,
                                                                 should_respond.content)]
    /\ UNCHANGED <<mvars, cvars, svars>>

DecisionNext == ShouldAgentRespond

DecisionSpec == DecisionInit /\ [][DecisionNext]_vars

\* ------------------------------------------------------------- MeetingSimulator
\* meeting_engine/meeting_simulator.py: the text-only simulator.  One task
\* drives it, as examples/demo_vivek.py does: it creates a meeting, starts it
\* and ends it, one call after the other.
IN_PROGRESS == "in_progress"
CANCELLED == "cancelled"
SimulatorMeetingState == {SCHEDULED, STARTING, IN_PROGRESS, ENDING, COMPLETED, CANCELLED}

\* the agents the driver has, the role of each, and the meetings it creates
SimulatorAgents == {"vivek", "sarah", "alex"}

employee_config_role ==
    [a \in SimulatorAgents |->
        CASE a = "vivek" -> "Senior Software Engineer"
          [] a = "sarah" -> "Engineering Manager"
          [] OTHER -> "Frontend Developer"]

MeetingTypes == {"standup", "planning", "review", "retro"}
ParticipantLists == {<<"vivek", "sarah">>, <<"sarah", "vivek", "alex">>}
AgentDicts == {{"vivek", "sarah", "alex"}, {"vivek", "alex"}, {"sarah"}}

\* what agent.generate_response does: it returns a message, returns None or
\* raises
Responses ==
    {[kind |-> "returns", content |-> "Working on the API."],
     [kind |-> "returns", content |-> "No current blockers."],
     [kind |-> "none", content |-> ""],
     [kind |-> "raises", content |-> ""]}

_setup_meeting_flow(meeting_type) ==
    CASE meeting_type = "standup" ->
            <<"opening", "status_updates", "blockers", "planning", "closing">>
      [] meeting_type = "planning" ->
            <<"opening", "review", "planning", "estimation", "closing">>
      [] meeting_type = "review" ->
            <<"opening", "demo", "feedback", "retrospective", "closing">>
      [] OTHER -> <<"opening", "discussion", "decisions", "closing">>

Meeting(context) ==
    [context |-> context,
     state |-> SCHEDULED,
     agents |-> <<>>,          \* self.agents: its keys, in insertion order
     messages |-> <<>>,
     facilitator |-> Missing,
     meeting_phases |-> _setup_meeting_flow(context.meeting_type),
     current_phase |-> 0]

SystemMessage(content) == [speaker |-> "system", content |-> content]

\* the prompt each phase handler sends, by its first words
FacilitatorPrompt(phase) ==
    CASE phase = "opening" -> "Good morning everyone!"
      [] phase = "status_updates" -> "Let's go around"
      [] phase = "blockers" -> "Now let's discuss any blockers"
      [] phase = "planning" -> "Let's talk about planning"
      [] phase = "closing" -> "Thank you everyone"
      [] OTHER -> "Moving to " \o phase \o " phase."

\* the phases whose handler asks the agents for a response
Soliciting == {"status_updates", "blockers", "planning"}

\* whether the response the agent returned is appended to the messages
Appended(phase, response) ==
    /\ response.kind = "returns"
    /\ phase = "blockers" => ~Contains(Lower(response.content), "no current blockers")

_select_facilitator(context, joined) ==
    LET managers == {k \in 1..Len(context.participants) :
                        /\ InSeq(joined, context.participants[k])
                        /\ Contains(Lower(employee_config_role[context.participants[k]]),
                                    "manager")}
    IN  IF managers # {}
        THEN context.participants[CHOOSE k \in managers : \A j \in managers : k <= j]
        ELSE IF context.participants # <<>> THEN context.participants[1] ELSE "system"

AgentCall(agent, method, phase) == [agent |-> agent, method |-> method, phase |-> phase]

create_meeting(participants_, meeting_type) ==
    /\ flow.pc = "idle"
    /\ meetings = <<>>
    /\ meetings' = <<Meeting([participants |-> participants_, meeting_type |-> meeting_type])>>
    /\ simulator' = [simulator EXCEPT !.active_meetings = @ \cup {1}]
    /\ UNCHANGED <<mvars, cvars, should_respond, flow, agent_calls>>

\* MeetingSimulator.start_meeting and Meeting.start up to the call of
\* _advance_meeting_phase
start_meeting(meeting_id, agents_) ==
    /\ flow.pc = "idle"
    /\ meeting_id \in simulator.active_meetings
    /\ meetings[meeting_id].state = SCHEDULED
    /\ LET context == meetings[meeting_id].context
           InAgents(p) == p \in agents_
           joined == SelectSeq(context.participants, InAgents)
           chosen == _select_facilitator(context, joined)
       IN  /\ meetings' =
                [meetings EXCEPT ![meeting_id].agents = joined,
                                 ![meeting_id].facilitator = chosen,
                                 ![meeting_id].state = IN_PROGRESS,
                                 ![meeting_id].messages =
                                     Append(@, SystemMessage("Meeting started."))]
           /\ agent_calls' =
                agent_calls \o [k \in 1..Len(joined) |-> AgentCall(joined[k], "join_meeting", "")]
    /\ flow' = [pc |-> "advance", m |-> meeting_id, i |-> 0, caller |-> "start_meeting"]
    /\ UNCHANGED <<mvars, cvars, should_respond, simulator>>

\* the end of a phase handler in _advance_meeting_phase: the phase is counted
\* and the next one follows while the meeting is in progress
PhaseHandled(meeting) ==
    [meeting EXCEPT !.current_phase = @ + 1]

AfterPhase(meeting, meeting_id) ==
    IF meeting.state = IN_PROGRESS
    THEN [pc |-> "advance", m |-> meeting_id, i |-> 0, caller |-> flow.caller]
    ELSE [pc |-> "idle", m |-> 0, i |-> 0, caller |-> ""]

_advance_meeting_phase ==
    /\ flow.pc = "advance"
    /\ LET meeting_id == flow.m
           meeting == meetings[meeting_id]
       IN  IF meeting.current_phase >= Len(meeting.meeting_phases)
           THEN \* Meeting.end, called by the phase flow
                /\ meetings' = [meetings EXCEPT ![meeting_id].state = ENDING]
                /\ flow' = [flow EXCEPT !.pc = "leave", !.i = 0]
           ELSE LET phase == meeting.meeting_phases[meeting.current_phase + 1]
                    prompted ==
                        [meeting EXCEPT !.messages =
                            Append(@, [speaker |-> meeting.facilitator,
                                       content |-> FacilitatorPrompt(phase)])]
                IN  IF phase \in Soliciting /\ meeting.context.participants # <<>>
                    THEN /\ meetings' = [meetings EXCEPT ![meeting_id] = prompted]
                         /\ flow' = [flow EXCEPT !.pc = "solicit", !.i = 0]
                    ELSE /\ meetings' = [meetings EXCEPT ![meeting_id] = PhaseHandled(prompted)]
                         /\ flow' = AfterPhase(prompted, meeting_id)
    /\ UNCHANGED <<mvars, cvars, should_respond, simulator, agent_calls>>

\* one round of the loop over the participants in a phase handler
Solicit(response) ==
    /\ flow.pc = "solicit"
    /\ LET meeting_id == flow.m
           meeting == meetings[meeting_id]
           phase == meeting.meeting_phases[meeting.current_phase + 1]
           participant == meeting.context.participants[flow.i + 1]
           asked == InSeq(meeting.agents, participant) /\ participant # meeting.facilitator
           answered ==
               IF asked /\ Appended(phase, response)
               THEN [meeting EXCEPT !.messages =
                        Append(@, [speaker |-> participant, content |-> response.content])]
               ELSE meeting
       IN  /\ agent_calls' =
                IF asked
                THEN Append(agent_calls, AgentCall(participant, "generate_response", phase))
                ELSE agent_calls
           /\ IF flow.i + 1 < Len(meeting.context.participants)
              THEN /\ meetings' = [meetings EXCEPT ![meeting_id] = answered]
                   /\ flow' = [flow EXCEPT !.i = @ + 1]
              ELSE /\ meetings' = [meetings EXCEPT ![meeting_id] = PhaseHandled(answered)]
                   /\ flow' = AfterPhase(answered, meeting_id)
    /\ UNCHANGED <<mvars, cvars, should_respond, simulator>>

\* MeetingSimulator.end_meeting up to the first agent's leave_meeting
end_meeting(meeting_id) ==
    /\ flow.pc = "idle"
    /\ meeting_id \in simulator.active_meetings
    /\ meetings' = [meetings EXCEPT ![meeting_id].state = ENDING]
    /\ flow' = [pc |-> "leave", m |-> meeting_id, i |-> 0, caller |-> "end_meeting"]
    /\ UNCHANGED <<mvars, cvars, should_respond, simulator, agent_calls>>

\* Meeting.end: one agent is told to leave (an exception it raises is
\* caught), or, after the last one, the meeting is completed and the call
\* returns to the phase flow or to MeetingSimulator.end_meeting
Leave ==
    /\ flow.pc = "leave"
    /\ LET meeting_id == flow.m
           meeting == meetings[meeting_id]
       IN  IF flow.i < Len(meeting.agents)
           THEN /\ agent_calls' =
                     Append(agent_calls, AgentCall(meeting.agents[flow.i + 1], "leave_meeting", ""))
                /\ flow' = [flow EXCEPT !.i = @ + 1]
                /\ UNCHANGED <<meetings, simulator>>
           ELSE /\ meetings' =
                     [meetings EXCEPT ![meeting_id].state = COMPLETED,
                                      ![meeting_id].messages =
                                          Append(@, SystemMessage("Meeting ended."))]
                /\ simulator' =
                     IF flow.caller = "end_meeting"
                     THEN [active_meetings |-> simulator.active_meetings \ {meeting_id},
                           meeting_history |-> Append(simulator.meeting_history, meeting_id)]
                     ELSE simulator
                /\ flow' = [pc |-> "idle", m |-> 0, i |-> 0, caller |-> ""]
                /\ UNCHANGED agent_calls
    /\ UNCHANGED <<mvars, cvars, should_respond>>

\* a MeetingSimulator on its own
SimulatorInit ==
    /\ SimulatorConstructed
    /\ strategy = NATURAL_FLOW
    /\ ConversationConstructed
    /\ should_respond = NoDecision
    /\ workload = [ceiling |-> MaxCeiling, schedule |-> 0, end |-> 0, events |-> 0,
                   callbacks |-> 0, cleanup |-> FALSE]
    /\ now = 1
    /\ max_concurrent_meetings = workload.ceiling
    /\ active_meetings = NoMeetings
    /\ records = <<>>
    /\ meeting_callbacks = NoMeetings
    /\ active_transcriptions = {}
    /\ sched = EmptyBag
    /\ schedule_returns = EmptyBag
    /\ tasks = EmptyBag
    /\ cleanup = [pc |-> "idle", todo |-> <<>>, pending |-> {}]
    /\ events = 0

SimulatorNext ==
    \/ \E participants_ \in ParticipantLists, meeting_type \in MeetingTypes :
          create_meeting(participants_, meeting_type)
    \/ \E agents_ \in AgentDicts : start_meeting(1, agents_)
    \/ _advance_meeting_phase
    \/ \E response \in Responses : Solicit(response)
    \/ end_meeting(1)
    \/ Leave

SimulatorSpec == SimulatorInit /\ [][SimulatorNext]_vars

\* ------------------------------------------------------------- properties
Records == 1..Len(records)

\* the records the registry holds
Registered == {active_meetings[id] : id \in DOMAIN active_meetings}

\* the states that lie ahead of a state on SCHEDULED -> STARTING -> ACTIVE ->
\* ENDING -> COMPLETED, with FAILED ahead of SCHEDULED and STARTING only (one
\* action may take several of these steps)
Ahead(st) ==
    CASE st = SCHEDULED -> {STARTING, ACTIVE, ENDING, COMPLETED, FAILED}
      [] st = STARTING -> {ACTIVE, ENDING, COMPLETED, FAILED}
      [] st = ACTIVE -> {ENDING, COMPLETED}
      [] st = ENDING -> {COMPLETED}
      [] OTHER -> {}

\* C1: the state of a meeting record only moves forward; no step takes a
\* record from ENDING or COMPLETED back to ACTIVE or FAILED.
C1_StateMovesForward ==
    [][\A m \in Records :
          records'[m].state # records[m].state
             => records'[m].state \in Ahead(records[m].state)]_vars

\* the meetings that occupy a slot
Occupying == {m \in Registered : records[m].state \in {SCHEDULED, STARTING, ACTIVE}}

\* C2: the number of meetings in SCHEDULED, STARTING or ACTIVE never exceeds
\* max_concurrent_meetings.
C2_CeilingHolds == Cardinality(Occupying) <= max_concurrent_meetings

\* C3: any two successful schedule_meeting calls return different meeting
\* ids.
C3_IdsDiffer ==
    \A id \in BagToSet(schedule_returns) : id # EmptyId => CopiesIn(id, schedule_returns) <= 1

\* an end_meeting call that passed the guard of line 509
Accepted(t) == t.kind = "end" /\ (t.pc # "done" \/ t.ret)

\* C4: of the end_meeting calls made on a meeting that is ACTIVE or already
\* being ended, exactly one is accepted: it alone runs post-meeting processing
\* and notifies meeting_ended; a call that returns failure does neither.
C4_OneEndWins ==
    \A m \in Records :
        /\ CountTasks(LAMBDA t : Accepted(t) /\ t.m = m /\ t.seen # STARTING) <= 1
        /\ records[m].processed =
              CountTasks(LAMBDA t : Accepted(t) /\ t.m = m /\ t.pc \in {"notify", "done"})
        /\ records[m].ended <= records[m].processed * Len(CallbacksOf(records[m].id))

\* two calls on an ACTIVE meeting, the second made while the first was running
C4_Witness ==
    \E t1, t2 \in BagToSet(tasks) :
        /\ t1.kind = "end" /\ t1.r = "manual" /\ t1.seen = ACTIVE /\ t1.pc = "done" /\ t1.ret
        /\ t2.kind = "end" /\ t2.r = "manual" /\ t2.seen = ENDING /\ t2.pc = "done" /\ ~t2.ret
        /\ t2.m = t1.m
        /\ records[t1.m].state = COMPLETED
        /\ records[t1.m].processed = 1
        /\ records[t1.m].ended = 1

Range(s) == {s[k] : k \in 1..Len(s)}

\* C5: when the joins gathered by start_meeting are over: with no successful
\* join the meeting is FAILED, start_meeting returns False and nothing was
\* notified; otherwise the meeting is ACTIVE, participants_joined holds exactly
\* the agents whose join succeeded, and every callback got meeting_started once.
C5_StartOutcome ==
    [][\A t \in BagToSet(tasks) :
          (t.kind = "start" /\ t.pc = "joins" /\ ~BagIn(t, tasks'))
          => LET joined == {j.a : j \in {j \in JoinsOf(t.m) : j.ret}}
                 rec == records'[t.m]
             IN IF joined = {}
                THEN /\ rec.state = FAILED
                     /\ BagIn(Done(t, FALSE), tasks')
                     /\ rec.started = 0
                ELSE /\ rec.state = ACTIVE
                     /\ Range(rec.participants_joined) = joined
                     /\ Len(rec.participants_joined) = Cardinality(joined)
                     /\ rec.started = Len(CallbacksOf(t.id))]_vars

\* C6: a schedule_meeting call that returns the empty string leaves the
\* registry as it was and creates no start task.
C6_FailureLeavesNothing ==
    [][CopiesIn(EmptyId, schedule_returns') > CopiesIn(EmptyId, schedule_returns)
          => /\ active_meetings' = active_meetings
             /\ records' = records
             /\ tasks' = tasks]_vars

\* C7: no record is registered for a config whose title is empty or whose
\* participants sequence is empty.
C7_EmptyRejected ==
    \A m \in Records : records[m].title # "" /\ records[m].participants # <<>>

\* C8: a valid schedule_meeting call is rejected for capacity only when
\* max_concurrent_meetings meetings are in SCHEDULED, STARTING or ACTIVE.
C8_SlotsFreed ==
    [][\A config \in ValidConfigs :
          (/\ ScheduleMeeting(config)
           /\ CopiesIn(EmptyId, schedule_returns') > CopiesIn(EmptyId, schedule_returns))
          => Cardinality(Occupying) >= max_concurrent_meetings]_vars

\* an end_meeting on record m is past its await of stop_meeting_transcription
StopAwaited(m) ==
    /\ records[m].enable_transcription
    /\ \E t \in BagToSet(tasks) : Accepted(t) /\ t.m = m /\ t.pc # "stop"

\* C9: once end_meeting has awaited stop_meeting_transcription for a meeting,
\* its transcript never changes again.
C9_TranscriptBounded ==
    [][\A m \in Records :
          StopAwaited(m) => records'[m].transcript = records[m].transcript]_vars

\* C10: a speech event delivered to the callback of a registered meeting is
\* appended to the transcript; a final event is handed to the agent-response
\* evaluation, a partial event is not and creates no task; no transcript holds
\* an agent_response that a partial event caused.
C10_OnlyFinalEvaluated ==
    [][\A c \in BagToSet(tasks) :
          (c.kind = "callback" /\ CopiesIn(c, tasks') < CopiesIn(c, tasks) /\ InRegistry(c.id))
          => LET m == active_meetings[c.id] IN
             /\ records'[m].transcript =
                   Append(records[m].transcript,
                          [type |-> c.r, speaker |-> c.a, text |-> c.text])
             /\ c.r = "final" => records'[m].evaluated = records[m].evaluated + 1
             /\ c.r = "partial" => /\ records'[m].evaluated = records[m].evaluated
                                    /\ tasks' = Drop(tasks, c)]_vars

\* a partial event was delivered and appended, and nothing was evaluated
C10_Witness ==
    \E m \in Records :
        /\ \E k \in 1..Len(records[m].transcript) : records[m].transcript[k].type = "partial"
        /\ records[m].evaluated = 0

\* an end_meeting call on this id would be turned away: the id is unknown or the
\* meeting is SCHEDULED, ENDING, COMPLETED or FAILED
NotEndable(id) ==
    ~InRegistry(id) \/ records[active_meetings[id]].state \notin {ACTIVE, STARTING}

\* C11: end_meeting on an unknown id or on a meeting that is not ACTIVE or
\* STARTING returns failure and changes neither the records, the registry, the
\* transcription streams nor the callbacks; it starts no leave, no processing
\* and no notification (it is over when it returns).
C11_RejectedEndChangesNothing ==
    [][\A id \in Ids :
          (EndMeeting(id, "manual") /\ NotEndable(id))
          => /\ UNCHANGED <<records, active_meetings, active_transcriptions, meeting_callbacks>>
             /\ \E e \in BagToSet(tasks') :
                   /\ e.kind = "end" /\ e.id = id /\ e.pc = "done" /\ ~e.ret
                   /\ tasks' = Spawn(tasks, e)]_vars

\* end_meeting was turned away on an unknown id, and on a meeting that the
\* watchdog had ended
C11_Witness ==
    \E t, u \in BagToSet(tasks) :
        /\ t.kind = "end" /\ t.pc = "done" /\ ~t.ret /\ t.seen = Missing
        /\ u.kind = "end" /\ u.pc = "done" /\ ~u.ret /\ u.seen = COMPLETED
        /\ records[u.m].processed = 1

\* C12: when end_meeting(id, reason) returns success the record is COMPLETED,
\* its end_reason is the given reason, its end_time is set, and the results of
\* the post-meeting collaborator are stored on it: summary is populated.
C12_SuccessfulEndStoresResults ==
    [][\A t \in BagToSet(tasks') :
          (/\ t.kind = "end" /\ t.pc = "done" /\ t.ret
           /\ CopiesIn(t, tasks') > CopiesIn(t, tasks))
          => /\ records'[t.m].state = COMPLETED
             /\ records'[t.m].end_reason = t.r
             /\ records'[t.m].end_time # 0
             /\ records'[t.m].summary # Missing]_vars

\* C13: cleanup() has ended every ACTIVE or STARTING meeting when it turns to
\* the platform and speech collaborators, no record is ACTIVE or STARTING
\* while it releases them or after it has returned, and with an empty registry
\* it goes straight to the collaborators and changes no record.
C13_CleanupEndsMeetings ==
    [][/\ cleanup'.pc \in {"platform", "speech", "done"}
          => \A m \in 1..Len(records') : records'[m].state \notin {ACTIVE, STARTING}
       /\ (Cleanup /\ DOMAIN active_meetings = {})
          => cleanup'.pc = "platform" /\ UNCHANGED <<records, tasks>>]_vars

\* C14: a start timer, a start task or a watchdog that was pending when
\* cleanup() was called and runs once cleanup() has started or returned does
\* nothing: it changes no record (no STARTING, no ACTIVE, no notification),
\* starts no transcription stream and creates no join.
C14_LateTasksDoNothing ==
    [][\A t \in cleanup.pending :
          (cleanup.pc # "idle" /\ (StartMeeting(t) \/ WatchdogFire(t)))
          => /\ UNCHANGED <<records, active_transcriptions>>
             /\ tasks' \in {Drop(tasks, t), Move(tasks, t, Done(t, FALSE))}]_vars

\* C15: a watchdog that fires ends the meeting with reason "timeout" if the
\* meeting is registered and ACTIVE, and otherwise changes nothing; the
\* end_reason of an ended meeting is the reason of the end_meeting call that
\* passed the state guard first.
C15_WatchdogChecksState ==
    [][/\ \A w \in BagToSet(tasks) :
             (w.kind = "watchdog" /\ WatchdogFire(w))
             => IF InRegistry(w.id) /\ records[active_meetings[w.id]].state = ACTIVE
                THEN LET m == active_meetings[w.id] IN
                     /\ records'[m].state \in {ENDING, COMPLETED}
                     /\ records'[m].accepted = Append(records[m].accepted, "timeout")
                ELSE /\ UNCHANGED <<records, active_meetings, active_transcriptions,
                                    meeting_callbacks>>
                     /\ tasks' = Drop(tasks, w)
       /\ \A m \in 1..Len(records') :
             records'[m].end_reason # Missing
             => records'[m].end_reason = Head(records'[m].accepted)]_vars

C17_StarvationPrevention ==
    [][\A speaker \in Speakers, message \in {Plain, Addressed, Asked} :
          ( /\ strategy = NATURAL_FLOW
            /\ Len(participants) >= 2
            /\ add_message(speaker, message)
            /\ InSeq(participants, speaker)
            /\ turn_counts'[speaker] >= max_consecutive_turns )
          => /\ Len(speaking_queue') > Len(speaking_queue)
             /\ LET chosen == speaking_queue'[Len(speaking_queue')]
                    spoke(p) == p \in DOMAIN last_speaker_time'
                    older(p, q) == \/ ~spoke(p) /\ spoke(q)
                                   \/ spoke(p) /\ spoke(q)
                                        /\ last_speaker_time'[p] < last_speaker_time'[q]
                IN /\ chosen # speaker
                   /\ InSeq(participants, chosen)
                   /\ \A k \in 1..Len(participants) :
                          participants[k] \notin {speaker, chosen}
                             => \/ older(chosen, participants[k])
                                \/ /\ ~older(participants[k], chosen)
                                   /\ IndexOf(participants, chosen) < k
             /\ speaking_queue = <<>>
                   => speaking_queue' # <<>> /\ Head(speaking_queue') # speaker]_vars

\* A has sent its third message, without a marker, after C and then B had
\* spoken: C, whose last message is the older one, is the one queued
C17_Witness ==
    /\ strategy = NATURAL_FLOW /\ participants = <<"A", "B", "C">>
    /\ current_speaker = "A" /\ turn_counts["A"] = max_consecutive_turns
    /\ conversation_history # <<>> /\ conversation_history[Len(conversation_history)].content = Plain.content
    /\ DOMAIN last_speaker_time = {"A", "B", "C"}
    /\ last_speaker_time["C"] < last_speaker_time["B"]
    /\ speaking_queue = <<"C">>

\* C18: once a conversation is initialized, every id in speaking_queue is a
\* participant and every participant is a key of turn_counts, under every
\* strategy and also with a facilitator that is no participant.
C18_QueueHoldsParticipants ==
    participants # <<>>
       => /\ \A k \in 1..Len(speaking_queue) : InSeq(participants, speaking_queue[k])
          /\ \A k \in 1..Len(participants) : participants[k] \in DOMAIN turn_counts

\* C19: the response decision for an agent and a message is true exactly when
\* the message names the agent (in whatever letter case), or holds one of the
\* trigger words (as part of the lower-cased message), or ends with '?' once
\* trimmed; "What's your status, Sarah?" is eligible for every agent and
\* "Looks good." for none.
C19_ResponseDecision ==
    should_respond.decided
       => /\ should_respond.value
                = (should_respond.named \/ should_respond.trigger \/ should_respond.question)
          /\ should_respond.content = "What's your status, Sarah?" => should_respond.value
          /\ should_respond.content = "Looks good." => ~should_respond.value

\* the decision on "What's your status, Sarah?" for an agent it does not name
C19_Witness ==
    /\ should_respond.decided
    /\ should_respond.content = "What's your status, Sarah?"
    /\ should_respond.agent_name = "Vivek"
    /\ should_respond.value

\* C20: when the callback of a registered meeting handles a final speech
\* event, every joined agent other than the speaker of the event that is
\* eligible to respond gets one response task of its own, and the agent of the
\* speaker and the agents that are not eligible get none.
C20_EligibleAgentsGetTasks ==
    [][\A c \in BagToSet(tasks) :
          (c.kind = "callback" /\ c.r = "final" /\ InRegistry(c.id) /\ TranscriptionCallback(c))
          => LET rec == records[active_meetings[c.id]] IN
             \A k \in 1..Len(rec.participants_joined) :
                LET agent_id == rec.participants_joined[k]
                    response == [Task("response", "created", c.id, 0) EXCEPT !.a = agent_id]
                IN CopiesIn(response, tasks') - CopiesIn(response, tasks)
                      = IF /\ c.a # employee_name[agent_id]
                           /\ _should_agent_respond(employee_name[agent_id], c.text)
                        THEN 1 ELSE 0]_vars

\* C21: when end_meeting returns success, leave_meeting has been called for
\* every agent in participants_joined of the meeting, also for an agent whose
\* join completed while the end_meeting call was under way.
C21_EveryJoinedAgentLeaves ==
    [][\A t \in BagToSet(tasks') :
          (t.kind = "end" /\ t.pc = "done" /\ t.ret /\ CopiesIn(t, tasks') > CopiesIn(t, tasks))
          => \A k \in 1..Len(records'[t.m].participants_joined) :
                records'[t.m].participants_joined[k] \in records'[t.m].left]_vars

\* C22: a meeting that end_meeting has moved to ENDING reaches COMPLETED, also
\* when stopping the transcription or a leave request has failed or the
\* post-meeting processing has raised; and an end_meeting call that has passed
\* its guard returns True, whatever failed on its way.
C22_EndingReachesCompleted ==
    /\ \A m \in 1..MaxSchedule :
          (Len(records) >= m /\ records[m].state = ENDING)
             ~> (Len(records) >= m /\ records[m].state = COMPLETED)
    /\ [][\A t \in BagToSet(tasks') :
             (t.kind = "end" /\ t.pc = "done" /\ t.seen \in {ACTIVE, STARTING})
                => t.ret /\ records'[t.m].processed >= 1]_vars

\* an end_meeting call whose stop or leave request failed has returned True,
\* the meeting is COMPLETED and was processed
C22_Witness ==
    \E t \in BagToSet(tasks) :
       /\ t.kind = "end" /\ t.pc = "done" /\ t.failed /\ t.ret
       /\ records[t.m].state = COMPLETED
       /\ records[t.m].processed = 1 /\ ~MeetingContextBuilt
       /\ records[t.m].left # {}

\* C23: a callback that raises does not keep the other callbacks of the meeting
\* from being invoked for the same event, nor change the outcome: a
\* notification of meeting_started invokes every callback of the id and leaves
\* the meeting ACTIVE, one of meeting_ended invokes every callback and leaves
\* it COMPLETED, and the start_meeting or end_meeting call that awaited the
\* callbacks returns True.
C23_RaisingCallbackIsContained ==
    [][/\ \A m \in Records :
             /\ records'[m].started > records[m].started
                   => /\ records'[m].started - records[m].started
                            = Len(CallbacksOf(records[m].id))
                      /\ records'[m].state = ACTIVE
             /\ records'[m].ended > records[m].ended
                   => /\ records'[m].ended - records[m].ended
                            = Len(CallbacksOf(records[m].id))
                      /\ records'[m].state = COMPLETED
       /\ \A t \in BagToSet(tasks) :
             (t.pc = "notify" /\ (StartReturn(t) \/ EndReturn(t)))
                => \E u \in BagToSet(tasks') :
                      /\ u.kind = t.kind /\ u.id = t.id /\ u.pc = "done" /\ u.ret
                      /\ CopiesIn(u, tasks') > CopiesIn(u, tasks)]_vars

\* a meeting with a callback that raises followed by one that returns: both
\* were invoked with meeting_started and with meeting_ended, and the
\* start_meeting and end_meeting calls have returned True
C23_Witness ==
    \E m \in Records :
       /\ CallbacksOf(records[m].id) = <<"raises", "returns">>
       /\ records[m].started = 2 /\ records[m].ended = 2
       /\ records[m].state = COMPLETED
       /\ \E t, e \in BagToSet(tasks) :
             /\ t.kind = "start" /\ t.m = m /\ t.pc = "done" /\ t.ret
             /\ e.kind = "end" /\ e.m = m /\ e.pc = "done" /\ e.ret

\* C24: a transcription that cannot be started does not fail the meeting: a
\* start_meeting call that finds its meeting SCHEDULED moves it to STARTING, and
\* once the attempt to start the transcription is over, with or without
\* success, a join task exists for every participant that is a known agent;
\* when the joins are over and one has succeeded, the meeting becomes ACTIVE.
C24_TranscriptionFailureIsNotFatal ==
    [][\A t \in BagToSet(tasks) :
          /\ ( /\ StartMeeting(t)
               /\ InRegistry(t.id)
               /\ records[active_meetings[t.id]].state = SCHEDULED
               /\ records[active_meetings[t.id]].enable_transcription )
             => LET m == active_meetings[t.id] IN
                \/ /\ records'[m].state = STARTING
                   /\ \E u \in BagToSet(tasks') :
                         u.kind = "start" /\ u.m = m /\ u.pc \in {"transcription", "joins"}
                \/ \A k \in 1..Len(records[m].participants) :
                      records[m].participants[k] \notin agents
          /\ (\E started \in BOOLEAN : StartTranscription(t, started))
             => \A k \in 1..Len(records[t.m].participants) :
                   records[t.m].participants[k] \in agents
                      => \E j \in BagToSet(tasks') :
                            /\ j.kind = "join" /\ j.owner = t.m
                            /\ j.a = records[t.m].participants[k]
          /\ (StartJoined(t) /\ \E j \in JoinsOf(t.m) : j.ret)
             => records'[t.m].state = ACTIVE]_vars

\* C25: initialize_conversation leaves the speaking queue and the message
\* history empty, every turn count 0, last_speaker_time empty and the
\* facilitator the given one or else the first participant; so in every state
\* of an initialized manager the total message count of the statistics equals
\* the sum of the turn counts.
C25_InitializeResets ==
    /\ [][\A c \in Conversations :
             initialize_conversation(c.participants, c.facilitator)
                => /\ speaking_queue' = <<>>
                   /\ conversation_history' = <<>>
                   /\ \A p \in DOMAIN turn_counts' : turn_counts'[p] = 0
                   /\ last_speaker_time' = NoTimes
                   /\ facilitator' = IF c.facilitator = Missing
                                     THEN c.participants[1] ELSE c.facilitator]_vars
    /\ [](participants # <<>> => total_messages = SumOf(turn_counts, DOMAIN turn_counts))

\* C26: under natural_flow, a message with a marker that names participants
\* puts every participant it names, other than its speaker, on the speaking
\* queue in that add_message call, also when it names its speaker or another
\* participant as well.  (Addressed has a marker and names B and C.)
C26_NamedParticipantIsQueued ==
    [][\A speaker \in Speakers :
          ( /\ strategy = NATURAL_FLOW
            /\ InSeq(participants, speaker)
            /\ add_message(speaker, Addressed) )
          => \A P \in {"B", "C"} :
                (InSeq(participants, P) /\ P # speaker)
                   => \E k \in (Len(speaking_queue) + 1)..Len(speaking_queue') :
                         speaking_queue'[k] = P]_vars

\* C27: Meeting.start takes the phases of the meeting type in their order, each
\* once; each phase appends one facilitator prompt, and each phase other than
\* opening and closing asks every joined participant other than the
\* facilitator for a response, in participant order, whatever the meeting
\* type; after the last phase the meeting is COMPLETED.
C27_PhasesInOrderWithSolicitation ==
    [][(meetings # <<>> /\ flow.caller = "start_meeting") =>
         LET before == meetings[1]
             after == meetings'[1]
             phase == before.meeting_phases[before.current_phase + 1]
             C27_Asked(p) == InSeq(after.agents, p) /\ p # after.facilitator
             C27_ForPhase(c) == c.method = "generate_response" /\ c.phase = phase
             due == SelectSeq(after.context.participants, C27_Asked)
             got == SelectSeq(agent_calls', C27_ForPhase)
         IN  /\ after.current_phase \in {before.current_phase, before.current_phase + 1}
             /\ after.current_phase = before.current_phase + 1
                   => /\ Cardinality({k \in 1..Len(after.messages) :
                                        after.messages[k] =
                                           [speaker |-> after.facilitator,
                                            content |-> FacilitatorPrompt(phase)]}) = 1
                      /\ phase \notin {"opening", "closing"}
                            => [k \in 1..Len(got) |-> got[k].agent] = due
             /\ flow'.pc = "idle"
                   => /\ after.state = COMPLETED
                      /\ after.current_phase = Len(after.meeting_phases)]_vars

\* C30: a meeting of the simulator is ended once: when start_meeting and then
\* end_meeting have returned, each joined agent was told to leave exactly
\* once and the messages hold exactly one closing system message; and a
\* meeting that is COMPLETED stays COMPLETED.
C30_EndedExactlyOnce ==
    [][(meetings # <<>> /\ meetings' # <<>>) =>
         LET after == meetings'[1]
             C30_Leaves(a) ==
                 Cardinality({k \in 1..Len(agent_calls') :
                                 agent_calls'[k] = AgentCall(a, "leave_meeting", "")})
         IN  /\ meetings[1].state = COMPLETED => after.state = COMPLETED
             /\ (flow'.pc = "idle" /\ simulator'.meeting_history # <<>>)
                   => /\ \A k \in 1..Len(after.agents) : C30_Leaves(after.agents[k]) = 1
                      /\ Cardinality({k \in 1..Len(after.messages) :
                                        after.messages[k] = SystemMessage("Meeting ended.")})
                            = 1]_vars

\* C28: a meeting in FAILED holds no running resource: its id has no active
\* transcription and no timeout watchdog is armed for its id.  (Stated of the
\* meetings that share their id with no other record, so that the stream and
\* the watchdog of the id are the meeting's own.)
C28_FailedHoldsNothing ==
    \A m \in Records :
        ( /\ records[m].state = FAILED
          /\ \A n \in Records : n # m => records[n].id # records[m].id )
           => /\ records[m].id \notin active_transcriptions
              /\ \A t \in BagToSet(tasks) : ~(t.kind = "watchdog" /\ t.id = records[m].id)

\* C29: over the life of a meeting, whatever the interleaving of
\* start_meeting, end_meeting calls, the watchdog and cleanup, post-meeting
\* processing runs at most once and each callback is notified of
\* meeting_ended at most once.
C29_ProcessedAndNotifiedOnce ==
    \A m \in Records :
        /\ records[m].processed <= 1
        /\ records[m].ended <= Len(CallbacksOf(records[m].id))
====
